---------------------------- MODULE Spec2Model ----------------------------
(***************************************************************************)
(* A model of the MT5 python templates: the order path                      *)
(* (03_order_management/trade_executor.py), the risk sizer                  *)
(* (05_risk_management/position_sizer.py), the SMA crossover signal         *)
(* (06_strategies/sma_crossover_bot.py) and the RSI indicator               *)
(* (07_indicators/rsi.py).                                                  *)
(*                                                                          *)
(* The MetaTrader5 terminal is the environment: what it answers to each     *)
(* boundary call is drawn nondeterministically, and the state it keeps      *)
(* (Market Watch visibility, open positions, the ticket counter) is part    *)
(* of the model's state.  Arithmetic is exact: prices are integers in       *)
(* units of 0.00001, lots and ratios are rationals [n, d].  round() goes   *)
(* to the nearest value and, on an exact tie, to the even one, as Python's *)
(* does; the sizer's inputs are such that the float computation of the     *)
(* source and the exact one agree on every call the model makes.           *)
(***************************************************************************)
EXTENDS Integers, Sequences, FiniteSets, TLC

VARIABLES
    visible,     \* terminal: the symbols selected in Market Watch
    positions,   \* terminal: the open positions, records [ticket, type, symbol, volume]
    nextTicket,  \* terminal: the next order ticket it assigns
    call,        \* the last invocation of the order path: [op, ...arguments]
    calls,       \* the boundary calls that invocation made, in order, with the answers
    ret          \* the TradeResult that invocation returned

orderVars == <<visible, positions, nextTicket, call, calls, ret>>

VARIABLES
    market,     \* what symbol_info answers the sizer: None, or the symbol's constraints
    account,    \* what account_info answers: None, or the balance
    sizePrev,   \* the call of calculate_lot_size before the last: None, or [args, lot]
    sizeCurr    \* the last call of calculate_lot_size

sizerVars == <<market, account, sizePrev, sizeCurr>>

VARIABLES
    bot,      \* the bot's settings: [fast_period, slow_period]
    rates,    \* what copy_rates_from_pos answers: None, or the close of each bar
    signal    \* None, or the CrossoverSignal get_signal returned on these rates

signalVars == <<bot, rates, signal>>

VARIABLES
    series,   \* the close prices handed to calculate_rsi, and the period: [close, period]
    rsi       \* None, or what calculate_rsi gave: "ValueError", or the series of values

rsiVars == <<series, rsi>>

vars == <<orderVars, sizerVars, signalVars, rsiVars>>

-----------------------------------------------------------------------------
(* Python's None / Optional *)

None == [some |-> FALSE]

Some(v) == [some |-> TRUE, val |-> v]

-----------------------------------------------------------------------------
(* The terminal's constants and the bounded input sets *)

TRADE_RETCODE_DONE == 10009

ORDER_TYPE_BUY == 0

ORDER_TYPE_SELL == 1

Deviation == 20

MaxTickets == 2

KnownSymbols == {"EURUSD", "USDJPY"}

Symbols == KnownSymbols \cup {"BOGUS"}

\* symbol_info(symbol).point, in units of 0.00001
PointOf(symbol) == IF symbol = "USDJPY" THEN 100 ELSE 1

OrderTypes == {"BUY", "sell", "HOLD"}

Volumes == {1, 2}

Pips == {None, Some(0), Some(5)}

Ticks == {[bid |-> 110500, ask |-> 110502]}

FillPrices == {110502, 110503}

RejectCodes == {10004, 10019}

RetcodeComment(rc) ==
    CASE rc = TRADE_RETCODE_DONE -> "Request executed"
      [] rc = 10004 -> "Requote"
      [] OTHER -> "No money"

-----------------------------------------------------------------------------
(* trade_executor.py *)

TradeResult(success, ticket, price, message) ==
    [success |-> success, ticket |-> ticket, price |-> price, message |-> message]

\* str.upper() on the order types the callers pass
Upper(s) ==
    CASE s = "sell" -> "SELL"
      [] s = "buy" -> "BUY"
      [] OTHER -> s

\* `x if pips else 0.0`: None and 0 are both falsy
Truthy(pips) == pips.some /\ pips.val # 0

_calculate_sl_tp(direction, price, point, sl_pips, tp_pips) ==
    LET pip_value == point * 10
    IN  IF direction = "BUY"
        THEN [sl |-> IF Truthy(sl_pips) THEN price - sl_pips.val * pip_value ELSE 0,
              tp |-> IF Truthy(tp_pips) THEN price + tp_pips.val * pip_value ELSE 0]
        ELSE [sl |-> IF Truthy(sl_pips) THEN price + sl_pips.val * pip_value ELSE 0,
              tp |-> IF Truthy(tp_pips) THEN price - tp_pips.val * pip_value ELSE 0]

\* One boundary call, as the log keeps it
Called(fn, arg, res) == [fn |-> fn, arg |-> arg, res |-> res]

\* mt5.order_send(request): one submission
order_send_twice(request, result) ==
    <<Called("order_send", request, result), Called("order_send", request, result)>>

order_send(request, result) == <<Called("order_send", request, result)>>

\* market_order, lines 106-122: the broker's answer read into a TradeResult
market_interpret_no_retcode(result) ==
    IF ~result.some
    THEN TradeResult(FALSE, 0, 0, [fmt |-> "Order send failed (result is None)"])
    ELSE TradeResult(TRUE, result.val.order, result.val.price,
                     [fmt |-> "Order executed at {price}", price |-> result.val.price])

market_interpret(result) ==
    IF ~result.some
    THEN TradeResult(FALSE, 0, 0, [fmt |-> "Order send failed (result is None)"])
    ELSE IF result.val.retcode # TRADE_RETCODE_DONE
    THEN TradeResult(FALSE, 0, 0,
                     [fmt |-> "Order failed: {comment} (code: {retcode})",
                      comment |-> result.val.comment, retcode |-> result.val.retcode])
    ELSE TradeResult(TRUE, result.val.order, result.val.price,
                     [fmt |-> "Order executed at {price}", price |-> result.val.price])

\* market_order, lines 63-74: the three checks before an order is built.
\* b is what the terminal answers when asked: [info, selOk, tick, result].
\* Gives the boundary calls made and the failure, if one ended the call.
market_checks_always_select(a, b) ==
    LET c1 == <<Called("symbol_info", a.symbol, b.info)>>
    IN  IF ~b.info.some
        THEN [calls |-> c1,
              fail |-> Some(TradeResult(FALSE, 0, 0,
                         [fmt |-> "Symbol {symbol} not found", symbol |-> a.symbol]))]
        ELSE
        LET c2 == c1 \o <<Called("symbol_select", a.symbol, b.selOk)>>
        IN  IF ~b.selOk
            THEN [calls |-> c2,
                  fail |-> Some(TradeResult(FALSE, 0, 0,
                             [fmt |-> "Symbol {symbol} not visible and selection failed",
                              symbol |-> a.symbol]))]
            ELSE
            LET c3 == c2 \o <<Called("symbol_info_tick", a.symbol, b.tick)>>
            IN  IF ~b.tick.some
                THEN [calls |-> c3,
                      fail |-> Some(TradeResult(FALSE, 0, 0,
                                 [fmt |-> "Failed to get tick for {symbol}",
                                  symbol |-> a.symbol]))]
                ELSE [calls |-> c3, fail |-> None]

market_checks(a, b) ==
    LET c1 == <<Called("symbol_info", a.symbol, b.info)>>
    IN  IF ~b.info.some
        THEN [calls |-> c1,
              fail |-> Some(TradeResult(FALSE, 0, 0,
                         [fmt |-> "Symbol {symbol} not found", symbol |-> a.symbol]))]
        ELSE
        LET c2 == IF ~b.info.val.visible
                  THEN c1 \o <<Called("symbol_select", a.symbol, b.selOk)>>
                  ELSE c1
        IN  IF ~b.info.val.visible /\ ~b.selOk
            THEN [calls |-> c2,
                  fail |-> Some(TradeResult(FALSE, 0, 0,
                             [fmt |-> "Symbol {symbol} not visible and selection failed",
                              symbol |-> a.symbol]))]
            ELSE
            LET c3 == c2 \o <<Called("symbol_info_tick", a.symbol, b.tick)>>
            IN  IF ~b.tick.some
                THEN [calls |-> c3,
                      fail |-> Some(TradeResult(FALSE, 0, 0,
                                 [fmt |-> "Failed to get tick for {symbol}",
                                  symbol |-> a.symbol]))]
                ELSE [calls |-> c3, fail |-> None]

\* market_order(symbol, order_type, volume, sl_pips, tp_pips, comment, magic):
\* the calls it makes and what it returns
market_order(a, b) ==
    LET chk == market_checks(a, b)
    IN  IF chk.fail.some
        THEN [calls |-> chk.calls, ret |-> chk.fail.val]
        ELSE
        LET point == b.info.val.point
            normalized_type == Upper(a.order_type)
        IN  IF normalized_type \notin {"BUY", "SELL"}
            THEN [calls |-> chk.calls,
                  ret |-> TradeResult(FALSE, 0, 0,
                            [fmt |-> "Invalid order type: {order_type}",
                             order_type |-> a.order_type])]
            ELSE
            LET mt5_type == IF normalized_type = "BUY" THEN ORDER_TYPE_BUY
                                                       ELSE ORDER_TYPE_SELL
                price == IF normalized_type = "BUY" THEN b.tick.val.ask
                                                    ELSE b.tick.val.bid
                lv == _calculate_sl_tp(normalized_type, price, point,
                                       a.sl_pips, a.tp_pips)
                request == [action |-> "TRADE_ACTION_DEAL", symbol |-> a.symbol,
                            volume |-> a.volume, type |-> mt5_type, price |-> price,
                            sl |-> lv.sl, tp |-> lv.tp, deviation |-> Deviation,
                            magic |-> a.magic, comment |-> a.comment,
                            type_time |-> "ORDER_TIME_GTC",
                            type_filling |-> "ORDER_FILLING_IOC"]
            IN  [calls |-> chk.calls \o order_send(request, b.result),
                 ret |-> market_interpret(b.result)]

\* close_position, line 135: the order type that offsets the position
close_type_same(pos) == IF pos.type = 0 THEN ORDER_TYPE_BUY ELSE ORDER_TYPE_SELL

close_type(pos) == IF pos.type = 0 THEN ORDER_TYPE_SELL ELSE ORDER_TYPE_BUY

\* close_position, lines 159-165: the broker's answer read into a TradeResult
close_interpret(result) ==
    IF ~result.some
    THEN TradeResult(FALSE, 0, 0, [fmt |-> "Order send failed (result is None)"])
    ELSE IF result.val.retcode # TRADE_RETCODE_DONE
    THEN TradeResult(FALSE, 0, 0,
                     [fmt |-> "Close failed: {comment}", comment |-> result.val.comment])
    ELSE TradeResult(TRUE, 0, result.val.price, [fmt |-> "Position closed"])

\* `if not positions`: None and the empty tuple are both falsy
NoPositions(found) == ~found.some \/ found.val = <<>>

\* close_position(ticket, comment): the calls it makes and what it returns.
\* b is what the terminal answers when asked: [found, tick, result].
close_position(a, b) ==
    LET c1 == <<Called("positions_get", a.ticket, b.found)>>
    IN  IF NoPositions(b.found)
        THEN [calls |-> c1,
              ret |-> TradeResult(FALSE, 0, 0,
                        [fmt |-> "Position {ticket} not found", ticket |-> a.ticket])]
        ELSE
        LET pos == b.found.val[1]
            c2 == c1 \o <<Called("symbol_info_tick", pos.symbol, b.tick)>>
        IN  IF ~b.tick.some
            THEN [calls |-> c2,
                  ret |-> TradeResult(FALSE, 0, 0,
                            [fmt |-> "Tick not available for {symbol}",
                             symbol |-> pos.symbol])]
            ELSE
            LET price == IF pos.type = 0 THEN b.tick.val.bid ELSE b.tick.val.ask
                request == [action |-> "TRADE_ACTION_DEAL", symbol |-> pos.symbol,
                            volume |-> pos.volume, type |-> close_type(pos),
                            position |-> a.ticket, price |-> price,
                            deviation |-> Deviation, comment |-> a.comment,
                            type_time |-> "ORDER_TIME_GTC",
                            type_filling |-> "ORDER_FILLING_IOC"]
            IN  [calls |-> c2 \o order_send(request, b.result),
                 ret |-> close_interpret(b.result)]

-----------------------------------------------------------------------------
(* The terminal *)

\* mt5.symbol_info(symbol)
symbol_info(symbol) ==
    IF symbol \in KnownSymbols
    THEN Some([visible |-> symbol \in visible, point |-> PointOf(symbol)])
    ELSE None

\* mt5.positions_get(ticket=ticket): the positions with that ticket, as a tuple
positions_get(ticket) ==
    IF \E p \in positions : p.ticket = ticket
    THEN <<CHOOSE p \in positions : p.ticket = ticket>>
    ELSE <<>>

\* What order_send may answer: nothing, a rejection, or a fill under a new
\* order ticket
OrderAnswers(order) ==
    {None}
    \cup {Some([retcode |-> rc, order |-> 0, price |-> 0, comment |-> RetcodeComment(rc)])
            : rc \in RejectCodes}
    \cup {Some([retcode |-> TRADE_RETCODE_DONE, order |-> order, price |-> fp,
                comment |-> RetcodeComment(TRADE_RETCODE_DONE)]) : fp \in FillPrices}

IsOrderSend(c) == c.fn = "order_send"

IsSelect(c) == c.fn = "symbol_select"

\* The requests the invocation submitted, in order
Sends(log) == SelectSeq(log, IsOrderSend)

Filled(log) ==
    /\ Sends(log) # <<>>
    /\ Sends(log)[1].res.some
    /\ Sends(log)[1].res.val.retcode = TRADE_RETCODE_DONE

Order(symbol, order_type, volume, sl_pips, tp_pips) ==
    [symbol |-> symbol, order_type |-> order_type, volume |-> volume,
     sl_pips |-> sl_pips, tp_pips |-> tp_pips, comment |-> "bot", magic |-> 7]

\* The calls of market_order the model makes
MarketArgs ==
    {Order("BOGUS", "BUY", 1, None, None),
     Order("EURUSD", "BUY", 1, None, None),
     Order("EURUSD", "sell", 2, Some(5), Some(10)),
     Order("USDJPY", "BUY", 2, Some(0), Some(10)),
     Order("USDJPY", "SELL", 1, Some(5), None),
     Order("EURUSD", "HOLD", 1, None, None)}

TickAnswers == {None} \cup {Some(t) : t \in Ticks}

\* Every way a call of market_order can go, over what the terminal may answer
MarketRuns(a) ==
    {market_order(a, [info |-> symbol_info(a.symbol), selOk |-> selOk,
                      tick |-> tick, result |-> result]) :
        selOk \in BOOLEAN, tick \in TickAnswers, result \in OrderAnswers(nextTicket)}

\* Every way a call of close_position can go
CloseRuns(a) ==
    {close_position(a, [found |-> found, tick |-> tick, result |-> result]) :
        found \in {None, Some(positions_get(a.ticket))},
        tick \in TickAnswers, result \in OrderAnswers(1000 + a.ticket)}

-----------------------------------------------------------------------------
(* The order path's operations *)

MarketOrder ==
    \E a \in MarketArgs : \E run \in MarketRuns(a) :
        LET req == Sends(run.calls)[1].arg
        IN  /\ Filled(run.calls) => nextTicket <= MaxTickets
            /\ call' = [op |-> "market_order", args |-> a]
            /\ calls' = run.calls
            /\ ret' = run.ret
            /\ visible' = IF \E i \in 1..Len(run.calls) :
                                IsSelect(run.calls[i]) /\ run.calls[i].res
                           THEN visible \cup {a.symbol}
                           ELSE visible
            /\ IF Filled(run.calls)
               THEN /\ positions' = positions \cup
                         {[ticket |-> nextTicket, type |-> req.type,
                           symbol |-> req.symbol, volume |-> req.volume]}
                    /\ nextTicket' = nextTicket + 1
               ELSE UNCHANGED <<positions, nextTicket>>
            /\ UNCHANGED <<sizerVars, signalVars, rsiVars>>

ClosePosition ==
    \E ticket \in 0..MaxTickets :
        LET a == [ticket |-> ticket, comment |-> "exit"]
        IN  \E run \in CloseRuns(a) :
            /\ call' = [op |-> "close_position", args |-> a,
                        held |-> positions_get(ticket)]
            /\ calls' = run.calls
            /\ ret' = run.ret
            /\ positions' = IF Filled(run.calls)
                             THEN {p \in positions : p.ticket # ticket}
                             ELSE positions
            /\ UNCHANGED <<visible, nextTicket>>
            /\ UNCHANGED <<sizerVars, signalVars, rsiVars>>

OrderNext == MarketOrder \/ ClosePosition

-----------------------------------------------------------------------------
(* Claims about the order path *)

Fns(log) == [i \in 1..Len(log) |-> log[i].fn]

Failed(r, fmt) == ~r.success /\ r.ticket = 0 /\ r.message.fmt = fmt

\* C1: in market_order each unmet precondition ends the call with its own
\* failed outcome (success false, ticket 0) and nothing is submitted: no
\* symbol info -> "not found"; not visible and the select fails -> "not
\* visible and selection failed", the select being attempted exactly once
\* and only when the symbol is not visible; no tick -> "failed to get
\* tick".  The checks come in that order, and order_send is reached only
\* when all three pass.
C1_Preconditions ==
    call.op = "market_order" =>
        LET info == calls[1].res
            fns == Fns(calls)
            nSelect == Len(SelectSeq(calls, IsSelect))
            selected == fns[2] = "symbol_select"
            tickAt == IF selected THEN 3 ELSE 2
        IN  /\ fns[1] = "symbol_info" /\ calls[1].arg = call.args.symbol
            /\ ~info.some =>
                 /\ fns = <<"symbol_info">>
                 /\ Failed(ret, "Symbol {symbol} not found")
            /\ info.some =>
                 /\ nSelect = (IF info.val.visible THEN 0 ELSE 1)
                 /\ ~info.val.visible => selected
                 /\ selected /\ ~calls[2].res =>
                      /\ fns = <<"symbol_info", "symbol_select">>
                      /\ Failed(ret, "Symbol {symbol} not visible and selection failed")
                 /\ ~selected \/ calls[2].res =>
                      /\ Len(fns) >= tickAt /\ fns[tickAt] = "symbol_info_tick"
                      /\ ~calls[tickAt].res.some =>
                           /\ Len(fns) = tickAt
                           /\ Failed(ret, "Failed to get tick for {symbol}")
                      /\ Len(fns) > tickAt =>
                           /\ Len(fns) = tickAt + 1
                           /\ fns[tickAt + 1] = "order_send"
                           /\ calls[tickAt].res.some
            /\ ret.message.fmt = "Symbol {symbol} not found" => ~info.some
            /\ ret.message.fmt = "Symbol {symbol} not visible and selection failed"
                 => info.some /\ ~info.val.visible /\ ~calls[2].res
            /\ ret.message.fmt = "Failed to get tick for {symbol}"
                 => ~calls[Len(calls)].res.some /\ fns[Len(calls)] = "symbol_info_tick"

\* A call on a hidden symbol: the one select succeeded, then no tick came
C1_Witness ==
    /\ call.op = "market_order"
    /\ Fns(calls) = <<"symbol_info", "symbol_select", "symbol_info_tick">>
    /\ calls[2].res
    /\ Failed(ret, "Failed to get tick for {symbol}")

\* C2: an invocation of market_order or close_position calls order_send at
\* most once, whatever the broker answers, and what it returns is the
\* outcome of that one attempt.
C2_SubmitOnce ==
    call.op \in {"market_order", "close_position"} =>
        /\ Len(Sends(calls)) <= 1
        /\ Sends(calls) = <<>> => ~ret.success
        /\ Sends(calls) # <<>> =>
             /\ calls[Len(calls)].fn = "order_send"
             /\ ret.success <=> Filled(calls)

\* The broker gave no answer to the one submission of a close
C2_Witness ==
    /\ call.op = "close_position"
    /\ Len(Sends(calls)) = 1
    /\ ~Sends(calls)[1].res.some
    /\ ~ret.success

\* C3: market_order reads the broker's answer so: no result -> failed,
\* marked as a failed send; a return code other than DONE -> failed, with
\* the broker's comment and the return code; DONE -> success with the
\* broker's order ticket and fill price.  Success in no other case.
C3_MarketInterpretation ==
    call.op = "market_order" =>
        /\ ret.success => Filled(calls)
        /\ Sends(calls) # <<>> =>
             LET r == Sends(calls)[1].res
             IN  /\ ~r.some => Failed(ret, "Order send failed (result is None)")
                 /\ r.some /\ r.val.retcode # TRADE_RETCODE_DONE =>
                      /\ ~ret.success /\ ret.ticket = 0
                      /\ {"comment", "retcode"} \subseteq DOMAIN ret.message
                      /\ ret.message.comment = r.val.comment
                      /\ ret.message.retcode = r.val.retcode
                 /\ r.some /\ r.val.retcode = TRADE_RETCODE_DONE =>
                      /\ ret.success
                      /\ ret.ticket = r.val.order
                      /\ ret.price = r.val.price

\* A rejected market order: the outcome carries the broker's code
C3_Witness ==
    /\ call.op = "market_order"
    /\ Sends(calls) # <<>>
    /\ Sends(calls)[1].res.some
    /\ Sends(calls)[1].res.val.retcode = 10019
    /\ ~ret.success
    /\ ret.message.retcode = 10019

\* C4: close_position reads the broker's answer exactly as market_order
\* does: for the same answer the two outcomes have the same fields filled
\* in (a rejection carries the comment and the return code, a success sets
\* the ticket and the fill price).
C4_CloseInterpretsAsMarket ==
    call.op = "close_position" /\ Sends(calls) # <<>> =>
        LET m == market_interpret(Sends(calls)[1].res)
        IN  /\ ret.success = m.success
            /\ (ret.ticket # 0) = (m.ticket # 0)
            /\ (ret.price # 0) = (m.price # 0)
            /\ DOMAIN ret.message \ {"price"} = DOMAIN m.message \ {"price"}

\* C5: for a position found by ticket, the order close_position submits is
\* of the type opposite to the position's, names that ticket as the
\* position to offset, and uses the position's symbol and whole volume;
\* with no position under the ticket the call fails "not found" and
\* submits nothing.
C5_CloseOffsets ==
    call.op = "close_position" =>
        /\ call.held = <<>> =>
             /\ Failed(ret, "Position {ticket} not found")
             /\ Sends(calls) = <<>>
        /\ Sends(calls) # <<>> =>
             LET pos == call.held[1]
                 req == Sends(calls)[1].arg
             IN  /\ pos.ticket = call.args.ticket
                 /\ req.position = pos.ticket
                 /\ pos.type = ORDER_TYPE_BUY => req.type = ORDER_TYPE_SELL
                 /\ pos.type = ORDER_TYPE_SELL => req.type = ORDER_TYPE_BUY
                 /\ req.symbol = pos.symbol
                 /\ req.volume = pos.volume

\* The second of two positions, a SELL of 1 lot on USDJPY, is closed
C5_Witness ==
    /\ call.op = "close_position"
    /\ call.args.ticket = 2
    /\ call.held # <<>>
    /\ call.held[1].type = ORDER_TYPE_SELL
    /\ call.held[1].symbol = "USDJPY"
    /\ Sends(calls) # <<>>
    /\ Sends(calls)[1].arg.type = ORDER_TYPE_BUY
    /\ ret.success

-----------------------------------------------------------------------------
(* Exact rationals [n, d], d > 0, in lowest terms: the floats of the sizer  *)
(* and of the indicator                                                     *)

RECURSIVE Gcd(_, _)
Gcd(a, b) == IF b = 0 THEN a ELSE Gcd(b, a % b)

Abs(x) == IF x < 0 THEN -x ELSE x

Rat(n, d) ==
    LET s == IF d < 0 THEN -1 ELSE 1
        g == Gcd(Abs(n), Abs(d))
    IN  [n |-> (s * n) \div g, d |-> (s * d) \div g]

Zero == Rat(0, 1)

RMul(x, y) == Rat(x.n * y.n, x.d * y.d)

RDiv(x, y) == Rat(x.n * y.d, x.d * y.n)

RAdd(x, y) == Rat(x.n * y.d + y.n * x.d, x.d * y.d)

RSub(x, y) == Rat(x.n * y.d - y.n * x.d, x.d * y.d)

RLe(x, y) == x.n * y.d <= y.n * x.d

RLt(x, y) == x.n * y.d < y.n * x.d

RMax(x, y) == IF RLt(x, y) THEN y ELSE x

RMin(x, y) == IF RLt(y, x) THEN y ELSE x

\* round(x): to the nearest integer, a tie to the even one
Round(x) ==
    LET f == x.n \div x.d
        r == x.n - f * x.d
    IN  IF 2 * r < x.d THEN f
        ELSE IF 2 * r > x.d THEN f + 1
        ELSE IF f % 2 = 0 THEN f ELSE f + 1

\* round(x, 2)
Round2(x) == Rat(Round(RMul(x, Rat(100, 1))), 100)

-----------------------------------------------------------------------------
(* position_sizer.py *)

MaxRisk == 3

MaxSl == 3

\* risk_percent: 0, 0.5, 1, ... percent
Risks == {Rat(k, 2) : k \in 0..MaxRisk}

\* sl_pips: 0, 10, 20, ... pips
SlPips == {Rat(10 * k, 1) : k \in 0..MaxSl}

BalanceArgs == {None, Some(Rat(30, 1))}

Constraints(tick_value, tick_size, point, volume_min, volume_max, volume_step) ==
    [trade_tick_value |-> tick_value, trade_tick_size |-> tick_size, point |-> point,
     volume_min |-> volume_min, volume_max |-> volume_max, volume_step |-> volume_step]

\* The symbols the sizer is asked about
Markets ==
    LET p4 == Rat(1, 10000)
        p3 == Rat(1, 1000)
    IN  {None,
         Some(Constraints(Rat(1, 1), p4, p4, Rat(1, 100), Rat(100, 1), Rat(1, 100))),
         Some(Constraints(Rat(9, 10), p3, p3, Rat(1, 100), Rat(50, 1), Rat(1, 100))),
         Some(Constraints(Rat(1, 1), p4, p4, Rat(1, 10), Rat(1, 1), Rat(1, 10))),
         Some(Constraints(Rat(1, 1), p4, p4, Rat(1, 20), Rat(1, 1), Rat(1, 10))),
         Some(Constraints(Rat(1, 1), p4, p4, Rat(1, 1000), Rat(1, 1), Rat(1, 1000))),
         Some(Constraints(Rat(1, 1), Zero, p4, Rat(1, 100), Rat(100, 1), Rat(1, 100))),
         Some(Constraints(Zero, p4, p4, Rat(1, 100), Rat(100, 1), Rat(1, 100))),
         Some(Constraints(Rat(1, 1), p4, p4, Rat(1, 100), Rat(100, 1), Zero))}

Accounts == {None, Some(Rat(10000, 1))}

_normalize_lot_size_reject_over(raw_lot, min_lot, max_lot, lot_step) ==
    IF RLe(lot_step, Zero)
    THEN Zero
    ELSE LET normalized == RMul(Rat(Round(RDiv(raw_lot, lot_step)), 1), lot_step)
         IN  IF RLt(max_lot, normalized)
             THEN Zero
             ELSE Round2(RMax(min_lot, normalized))

_normalize_lot_size(raw_lot, min_lot, max_lot, lot_step) ==
    IF RLe(lot_step, Zero)
    THEN Zero
    ELSE LET normalized == RMul(Rat(Round(RDiv(raw_lot, lot_step)), 1), lot_step)
             clamped == RMax(min_lot, RMin(normalized, max_lot))
         IN  Round2(clamped)

\* calculate_lot_size(symbol, risk_percent, sl_pips, account_balance), with
\* what account_info and symbol_info answer
calculate_lot_size(risk_percent, sl_pips, account_balance, account_info, symbol_info_) ==
    IF RLe(risk_percent, Zero) \/ RLe(sl_pips, Zero)
    THEN Zero
    ELSE IF ~account_balance.some /\ ~account_info.some
    THEN Zero
    ELSE IF ~symbol_info_.some
    THEN Zero
    ELSE
    LET balance == IF account_balance.some THEN account_balance.val ELSE account_info.val
        si == symbol_info_.val
        tick_value == si.trade_tick_value
        tick_size == si.trade_tick_size
        point == si.point
    IN  IF RLe(tick_size, Zero) \/ RLe(point, Zero)
        THEN Zero
        ELSE
        LET pip_value == RMul(RMul(RDiv(tick_value, tick_size), point), Rat(10, 1))
        IN  IF RLe(pip_value, Zero)
            THEN Zero
            ELSE
            LET risk_amount == RMul(balance, RDiv(risk_percent, Rat(100, 1)))
                raw_lot == RDiv(risk_amount, RMul(sl_pips, pip_value))
            IN  _normalize_lot_size(raw_lot, si.volume_min, si.volume_max,
                                    si.volume_step)

CalculateLotSize ==
    \E risk_percent \in Risks, sl_pips \in SlPips, account_balance \in BalanceArgs :
        /\ sizePrev' = sizeCurr
        /\ sizeCurr' = Some([risk_percent |-> risk_percent, sl_pips |-> sl_pips,
                             account_balance |-> account_balance,
                             lot |-> calculate_lot_size(risk_percent, sl_pips,
                                        account_balance, account, market)])
        /\ UNCHANGED <<market, account>>
        /\ UNCHANGED <<orderVars, signalVars, rsiVars>>

SizerNext == CalculateLotSize

-----------------------------------------------------------------------------
(* Float series with holes: an element is None (NaN) or Some(rational) *)

\* A comparison with NaN is false
NLe(x, y) == x.some /\ y.some /\ RLe(x.val, y.val)

NLt(x, y) == x.some /\ y.some /\ RLt(x.val, y.val)

RECURSIVE SumRange(_, _, _)
SumRange(xs, lo, hi) == IF lo > hi THEN 0 ELSE xs[hi] + SumRange(xs, lo, hi - 1)

\* series.rolling(period).mean() at position i (from 1): NaN until the
\* window holds `period` values
RollingMean(xs, period, i) ==
    IF i < period THEN None
    ELSE Some(Rat(SumRange(xs, i - period + 1, i), period))

-----------------------------------------------------------------------------
(* sma_crossover_bot.py *)

Margin == 5

MaxPeriod == 2

MaxClose == 2

CrossoverSignal(action, price) == [action |-> action, price |-> price]

\* get_signal, lines 51-55: the crossover rule
crossover_strict(prev_fast, prev_slow, curr_fast, curr_slow, price) ==
    IF NLt(prev_fast, prev_slow) /\ NLt(curr_slow, curr_fast)
    THEN CrossoverSignal("BUY", price)
    ELSE IF NLt(prev_slow, prev_fast) /\ NLt(curr_fast, curr_slow)
    THEN CrossoverSignal("SELL", price)
    ELSE CrossoverSignal("HOLD", price)

crossover(prev_fast, prev_slow, curr_fast, curr_slow, price) ==
    IF NLe(prev_fast, prev_slow) /\ NLt(curr_slow, curr_fast)
    THEN CrossoverSignal("BUY", price)
    ELSE IF NLe(prev_slow, prev_fast) /\ NLt(curr_fast, curr_slow)
    THEN CrossoverSignal("SELL", price)
    ELSE CrossoverSignal("HOLD", price)

Max2(a, b) == IF a >= b THEN a ELSE b

\* SMACrossoverBot.get_signal, with what copy_rates_from_pos answered
get_signal(self, answer) ==
    LET bars == Max2(self.fast_period, self.slow_period) + Margin
    IN  IF ~answer.some \/ Len(answer.val) < bars
        THEN CrossoverSignal("HOLD", 0)
        ELSE
        LET close == answer.val
            n == Len(close)
            prev_fast == RollingMean(close, self.fast_period, n - 1)
            prev_slow == RollingMean(close, self.slow_period, n - 1)
            curr_fast == RollingMean(close, self.fast_period, n)
            curr_slow == RollingMean(close, self.slow_period, n)
            price == close[n]
        IN  crossover(prev_fast, prev_slow, curr_fast, curr_slow, price)

Bars(self) == Max2(self.fast_period, self.slow_period) + Margin

\* One poll of the bot's loop
GetSignal ==
    /\ signal = None
    /\ signal' = Some(get_signal(bot, rates))
    /\ UNCHANGED <<bot, rates>>
    /\ UNCHANGED <<orderVars, sizerVars, rsiVars>>

\* The terminal's history gains a bar; it answers with at most the `bars`
\* latest, oldest first
NewBar ==
    \E c \in 1..MaxClose :
        LET old == IF rates.some THEN rates.val ELSE <<>>
            all == Append(old, c)
        IN  /\ rates' = Some(IF Len(all) > Bars(bot) THEN Tail(all) ELSE all)
            /\ signal' = None
            /\ UNCHANGED bot
            /\ UNCHANGED <<orderVars, sizerVars, rsiVars>>

SignalNext == GetSignal \/ NewBar

-----------------------------------------------------------------------------
(* rsi.py *)

MaxLen == 5

MaxPrice == 3

MaxRsiPeriod == 3

\* close.diff(): NaN at the first position
Diff(close) ==
    [i \in 1..Len(close) |-> IF i = 1 THEN None ELSE Some(Rat(close[i] - close[i - 1], 1))]

\* clip(lower=0) and -clip(upper=0); NaN stays NaN
Gain(delta) ==
    [i \in 1..Len(delta) |-> IF delta[i].some THEN Some(RMax(delta[i].val, Zero)) ELSE None]

Loss(delta) ==
    [i \in 1..Len(delta) |->
        IF delta[i].some THEN Some(RSub(Zero, RMin(delta[i].val, Zero))) ELSE None]

\* ewm(alpha=1/period, adjust=False).mean() before min_periods is applied,
\* on a series whose only NaN is its first value: seeded with the first
\* observation, then y[i] = (1 - alpha) * y[i-1] + alpha * x[i]
RECURSIVE EwmRaw(_, _, _)
EwmRaw(xs, period, i) ==
    IF i = 2 THEN xs[2].val
    ELSE RAdd(RMul(Rat(period - 1, period), EwmRaw(xs, period, i - 1)),
              RMul(Rat(1, period), xs[i].val))

\* ewm(alpha=1/period, adjust=False, min_periods=period).mean(): NaN where
\* fewer than `period` observations have been seen
Ewm(xs, period) ==
    [i \in 1..Len(xs) |-> IF i - 1 < period THEN None ELSE Some(EwmRaw(xs, period, i))]

\* lines 28-29, one position: rs = avg_gain / avg_loss.replace(0, NA);
\* rsi = 100 - 100 / (1 + rs)
rsi_at(avg_gain, avg_loss) ==
    IF ~avg_gain.some \/ ~avg_loss.some \/ avg_loss.val = Zero
    THEN None
    ELSE LET rs == RDiv(avg_gain.val, avg_loss.val)
         IN  Some(RSub(Rat(100, 1), RDiv(Rat(100, 1), RAdd(Rat(1, 1), rs))))

\* series.fillna(value)
fillna_zero(xs, value) == [i \in 1..Len(xs) |-> IF xs[i].some THEN xs[i] ELSE Some(Zero)]

fillna(xs, value) == [i \in 1..Len(xs) |-> IF xs[i].some THEN xs[i] ELSE Some(value)]

\* calculate_rsi(close, period)
calculate_rsi(close, period) ==
    IF period <= 0
    THEN "ValueError"
    ELSE LET delta == Diff(close)
             avg_gain == Ewm(Gain(delta), period)
             avg_loss == Ewm(Loss(delta), period)
             raw == [i \in 1..Len(close) |-> rsi_at(avg_gain[i], avg_loss[i])]
         IN  fillna(raw, Rat(100, 1))

CalculateRsi ==
    /\ rsi = None
    /\ rsi' = Some(calculate_rsi(series.close, series.period))
    /\ UNCHANGED series
    /\ UNCHANGED <<orderVars, sizerVars, signalVars>>

\* The price series gains a close
NewClose ==
    \E c \in 1..MaxPrice :
        /\ Len(series.close) < MaxLen
        /\ series' = [series EXCEPT !.close = Append(@, c)]
        /\ rsi' = None
        /\ UNCHANGED <<orderVars, sizerVars, signalVars>>

RsiNext == CalculateRsi \/ NewClose

-----------------------------------------------------------------------------
(* Specifications: one per component, the others idle *)

\* The order path alone: the terminal starts with any Market Watch selection
\* and no position
InitOrder ==
    /\ visible \in SUBSET KnownSymbols
    /\ positions = {}
    /\ nextTicket = 1
    /\ call = [op |-> "none"]
    /\ calls = <<>>
    /\ ret = TradeResult(FALSE, 0, 0, [fmt |-> ""])
    /\ market = None /\ account = None /\ sizePrev = None /\ sizeCurr = None
    /\ bot = [fast_period |-> 1, slow_period |-> 1] /\ rates = None /\ signal = None
    /\ series = [close |-> <<>>, period |-> 1] /\ rsi = None

SpecOrder ==
    InitOrder /\ [][OrderNext]_vars

\* The sizer alone: any symbol and account
InitSizer ==
    /\ market \in Markets
    /\ account \in Accounts
    /\ sizePrev = None
    /\ sizeCurr = None
    /\ visible = {} /\ positions = {} /\ nextTicket = 1
    /\ call = [op |-> "none"] /\ calls = <<>>
    /\ ret = TradeResult(FALSE, 0, 0, [fmt |-> ""])
    /\ bot = [fast_period |-> 1, slow_period |-> 1] /\ rates = None /\ signal = None
    /\ series = [close |-> <<>>, period |-> 1] /\ rsi = None

SpecSizer ==
    InitSizer /\ [][SizerNext]_vars

\* The crossover bot alone: any two periods, no history yet
InitSignal ==
    /\ bot \in [fast_period : 1..MaxPeriod, slow_period : 1..MaxPeriod]
    /\ rates \in {None, Some(<<>>)}
    /\ signal = None
    /\ visible = {} /\ positions = {} /\ nextTicket = 1
    /\ call = [op |-> "none"] /\ calls = <<>>
    /\ ret = TradeResult(FALSE, 0, 0, [fmt |-> ""])
    /\ market = None /\ account = None /\ sizePrev = None /\ sizeCurr = None
    /\ series = [close |-> <<>>, period |-> 1] /\ rsi = None

SpecSignal ==
    InitSignal /\ [][SignalNext]_vars

\* The indicator alone: any period, an empty series
InitRsi ==
    /\ series \in [close : {<<>>}, period : 0..MaxRsiPeriod]
    /\ rsi = None
    /\ visible = {} /\ positions = {} /\ nextTicket = 1
    /\ call = [op |-> "none"] /\ calls = <<>>
    /\ ret = TradeResult(FALSE, 0, 0, [fmt |-> ""])
    /\ market = None /\ account = None /\ sizePrev = None /\ sizeCurr = None
    /\ bot = [fast_period |-> 1, slow_period |-> 1] /\ rates = None /\ signal = None

SpecRsi ==
    InitRsi /\ [][RsiNext]_vars

-----------------------------------------------------------------------------
(* Claims about the sizer *)

\* The balance a call works with: the argument, else the account's
BalanceOf(c) == IF c.account_balance.some THEN c.account_balance ELSE account

\* No guard of calculate_lot_size fires on call c
NoGuardFires(c) ==
    /\ RLt(Zero, c.risk_percent) /\ RLt(Zero, c.sl_pips)
    /\ BalanceOf(c).some
    /\ market.some
    /\ RLt(Zero, market.val.trade_tick_size) /\ RLt(Zero, market.val.point)
    /\ RLt(Zero, market.val.trade_tick_value)
    /\ RLt(Zero, market.val.volume_step)

IsMultipleOf(x, step) == RDiv(x, step).d = 1

\* C6: whenever no guard fires, the lot calculate_lot_size returns is an
\* integer multiple of volume_step and lies in [volume_min, volume_max],
\* also when volume_min is no multiple of volume_step and when
\* volume_step is finer than 0.01.
C6_LotMeetsConstraints ==
    sizeCurr.some /\ NoGuardFires(sizeCurr.val) =>
        /\ IsMultipleOf(sizeCurr.val.lot, market.val.volume_step)
        /\ RLe(market.val.volume_min, sizeCurr.val.lot)
        /\ RLe(sizeCurr.val.lot, market.val.volume_max)

\* Two calls on the same symbol and balance
Comparable == sizePrev.some /\ sizeCurr.some /\ BalanceOf(sizePrev.val) = BalanceOf(sizeCurr.val)

MonotoneInRisk ==
    Comparable /\ sizePrev.val.sl_pips = sizeCurr.val.sl_pips
               /\ RLe(sizePrev.val.risk_percent, sizeCurr.val.risk_percent)
        => RLe(sizePrev.val.lot, sizeCurr.val.lot)

\* C7 as claimed: with the symbol and the balance fixed, the lot is
\* non-decreasing in risk_percent and non-increasing in sl_pips, over all
\* values of both.
C7_MonotoneAsClaimed ==
    /\ MonotoneInRisk
    /\ Comparable /\ sizePrev.val.risk_percent = sizeCurr.val.risk_percent
                  /\ RLe(sizePrev.val.sl_pips, sizeCurr.val.sl_pips)
         => RLe(sizeCurr.val.lot, sizePrev.val.lot)

\* C7, amended: with the symbol and the balance fixed, the lot is
\* non-decreasing in risk_percent, and non-increasing in sl_pips over
\* sl_pips > 0 (at sl_pips <= 0 the guard returns 0.0).
C7_Monotone ==
    /\ MonotoneInRisk
    /\ Comparable /\ sizePrev.val.risk_percent = sizeCurr.val.risk_percent
                  /\ RLt(Zero, sizePrev.val.sl_pips)
                  /\ RLe(sizePrev.val.sl_pips, sizeCurr.val.sl_pips)
         => RLe(sizeCurr.val.lot, sizePrev.val.lot)

\* The same risk with a wider stop gave a strictly smaller lot, neither
\* of them at the clamp
C7_Witness ==
    /\ Comparable
    /\ sizePrev.val.risk_percent = sizeCurr.val.risk_percent
    /\ RLt(Zero, sizePrev.val.sl_pips)
    /\ RLt(sizePrev.val.sl_pips, sizeCurr.val.sl_pips)
    /\ RLt(sizeCurr.val.lot, sizePrev.val.lot)
    /\ RLt(market.val.volume_min, sizeCurr.val.lot)
    /\ RLt(sizePrev.val.lot, market.val.volume_max)

-----------------------------------------------------------------------------
(* Claims about the crossover signal *)

WindowSum(c, period, i) == SumRange(c, i - period + 1, i)

\* fast mean <= slow mean at bar i, on the sums
FastLeSlow(c, i) ==
    WindowSum(c, bot.fast_period, i) * bot.slow_period
        <= WindowSum(c, bot.slow_period, i) * bot.fast_period

SlowLeFast(c, i) ==
    WindowSum(c, bot.slow_period, i) * bot.fast_period
        <= WindowSum(c, bot.fast_period, i) * bot.slow_period

FullWindow == rates.some /\ Len(rates.val) >= Max2(bot.fast_period, bot.slow_period) + 5

\* C8: on a full window get_signal gives BUY iff prev_fast <= prev_slow and
\* curr_fast > curr_slow, SELL iff prev_fast >= prev_slow and curr_fast <
\* curr_slow, HOLD otherwise (a tie on the previous bar followed by fast >
\* slow is BUY, followed by fast < slow is SELL); on fewer bars than
\* max(fast_period, slow_period) + 5, or none, it gives HOLD at price 0.0.
C8_CrossoverRule ==
    signal.some =>
        IF FullWindow
        THEN LET c == rates.val
                 n == Len(c)
                 up == FastLeSlow(c, n - 1) /\ ~FastLeSlow(c, n)
                 down == SlowLeFast(c, n - 1) /\ ~SlowLeFast(c, n)
             IN  /\ signal.val.action = "BUY" <=> up
                 /\ signal.val.action = "SELL" <=> down
                 /\ signal.val.action = "HOLD" <=> ~up /\ ~down
                 /\ signal.val.action \in {"BUY", "SELL", "HOLD"}
        ELSE signal.val = CrossoverSignal("HOLD", 0)

\* The means were equal on the previous bar and fast is above slow now: BUY
C8_Witness ==
    /\ signal.some
    /\ FullWindow
    /\ bot.fast_period # bot.slow_period
    /\ FastLeSlow(rates.val, Len(rates.val) - 1)
    /\ SlowLeFast(rates.val, Len(rates.val) - 1)
    /\ ~FastLeSlow(rates.val, Len(rates.val))
    /\ signal.val.action = "BUY"

-----------------------------------------------------------------------------
(* Claims about the RSI *)

Hundred == Rat(100, 1)

\* No close up to position i is below the one before it
NoLossUpTo(close, i) == \A j \in 2..i : close[j] >= close[j - 1]

\* C9: for a series of length >= period, period > 0, every value of
\* calculate_rsi lies in [0, 100], and where the smoothed average loss is 0
\* (no losing step so far, a flat run included) the value is exactly 100.
C9_RsiRange ==
    rsi.some /\ series.period > 0 /\ Len(series.close) >= series.period =>
        \A i \in 1..Len(series.close) :
            LET v == rsi.val[i]
                avg_loss == Ewm(Loss(Diff(series.close)), series.period)[i]
            IN  /\ v.some
                /\ RLe(Zero, v.val) /\ RLe(v.val, Hundred)
                /\ avg_loss.some /\ avg_loss.val = Zero => v.val = Hundred
                /\ i > series.period /\ NoLossUpTo(series.close, i) => v.val = Hundred

\* A value of 100 on a window without a loss, then a value strictly
\* between 0 and 100 after a losing step
C9_Witness ==
    /\ rsi.some /\ series.period = 2 /\ Len(series.close) >= 4
    /\ NoLossUpTo(series.close, 3) /\ series.close[3] > series.close[2]
    /\ rsi.val[3].val = Hundred
    /\ series.close[4] < series.close[3]
    /\ RLt(Zero, rsi.val[4].val) /\ RLt(rsi.val[4].val, Hundred)

\* C10: calculate_rsi gives an undefined value, not a number, at every
\* position with fewer than `period` price changes behind it; a defined
\* value appears only from the first position with `period` of them.
C10_WarmupUndefined ==
    rsi.some /\ series.period > 0 =>
        \A i \in 1..Len(series.close) :
            /\ i - 1 < series.period => ~rsi.val[i].some
            /\ rsi.val[i].some => i - 1 >= series.period

=============================================================================
